---- MODULE Spec2Model ----
(***************************************************************************)
(* The websocket client service (services/websocket/src/client.rs): the    *)
(* chunked `write` function and the opcode loop of `main` over the         *)
(* per-process asset store.                                                *)
(***************************************************************************)
EXTENDS Integers, Naturals, Sequences, FiniteSets, TLC

(* ---------------- bounds ---------------- *)
\* number of caller processes
NumPids == 2
\* write is explored on payloads of up to MaxChunks full chunks (plus or minus one byte)
MaxChunks == 3
\* messages of callers waiting at the server at once
MaxQueue == 1
\* the tick pump's intervals and posts are counted up to MaxTicks
MaxTicks == 2
\* the words of a Tile: the program's tiles hold just under a page of u32
\* words, the tiles explored here hold WORDS_PER_TILE of them
WORDS_PER_TILE == 2
\* bitmaps of up to MaxY + 1 lines are explored
MaxY == 2
\* set_pixel calls made on one bitmap
MaxSets == 2
\* poll threads spawned in one run
MaxPolls == 2
\* I2C transactions carry up to MaxLen bytes each way (or the limit lengths)
MaxLen == 2
\* the ticktimer is followed up to MaxNow ms
MaxNow == 3
\* add and remove calls made on a CheckBoxPayload
MaxOps == 2
\* characters typed into a TextEntry
MaxText == 2

(* ---------------- program constants ---------------- *)
WEBSOCKET_BUFFER_LEN == 4096
WEBSOCKET_PAYLOAD_LEN == 4080
\* the bytes of the write buffer a websocket header takes at most
WEBSOCKET_HEADER_LEN == 14

\* WsError as usize (discriminants in declaration order)
WsError_Scalar == 0
WsError_ScalarBlock == 1
WsError_Memory == 2
WsError_MemoryBlock == 3
WsError_AssetsFault == 4
WsError_ProtocolError == 5

VARIABLES
    w,        \* the activation record of `write`
    store,    \* main's store: the assets of existing websockets by pid
    reply,    \* the request handled last and what its caller got back
    wire,     \* the frames the last handled request passed to the streams
    running,  \* FALSE once main left its loop
    queue,    \* the messages sent to the server and not yet received
    cur,      \* the message main is handling, and the frames it has yet to write
    pump,     \* the tick pump thread: where it is, intervals elapsed, Ticks posted
    polls,    \* the poll threads spawned so far, in the order of their spawn
    acc,      \* the buffers and the store as touched by the step taken last, by thread
    inb,      \* one inbound message on its way through a poll thread's relay
    bm,       \* a gam Bitmap and the call made on it last
    i2c,      \* the llio I2cStateMachine, the clock, and what its last call did
    form      \* a gam modal item (radio buttons, check boxes or text entry)

vars == <<w, store, reply, wire, running, queue, cur, pump, polls, acc, inb, bm, i2c, form>>
brokerVars == <<store, reply, wire, running>>
loopVars == <<queue, cur, pump>>
pollVars == <<polls, acc, inb>>

(* ---------------- payload lengths ---------------- *)
\* the lengths around the chunk boundaries, up to m chunks
LensUpTo(m) ==
    { k * WEBSOCKET_PAYLOAD_LEN + d : k \in 0..m, d \in {-1, 0, 1} } \ {-1}
PayloadLens == LensUpTo(MaxChunks)
\* the payloads of a Send: empty, short, one full chunk, one byte more
SendLens == {0, WEBSOCKET_PAYLOAD_LEN - 1, WEBSOCKET_PAYLOAD_LEN, WEBSOCKET_PAYLOAD_LEN + 1}

(* ---------------- fn write ---------------- *)
\* a frame handed to a stream: the slice [lo, hi) of the caller's bytes, its
\* message type and end_of_message flag, and whether the stream took it
Frame(type, lo, hi, fin, ok) == [type |-> type, lo |-> lo, hi |-> hi, fin |-> fin, ok |-> ok]

\* the locals of write before the loop: ret = Ok(()) is 0, Err of the i-th
\* framer.write is i
WriteEntry(len) ==
    [len |-> len, start |-> 0, end_of_message |-> FALSE, ret |-> 0, frames |-> <<>>]

\* an iteration that takes the whole rest of the buffer as its slice
WriteBodyRestOfBuffer(st, ok) ==
    LET eom == st.len < (st.start + WEBSOCKET_PAYLOAD_LEN)
        n   == Len(st.frames) + 1
    IN  [len |-> st.len,
         start |-> st.start + WEBSOCKET_PAYLOAD_LEN,
         end_of_message |-> eom,
         ret |-> IF ok THEN 0 ELSE n,
         frames |-> Append(st.frames, Frame("Binary", st.start, st.len, eom, ok))]

\* an iteration that leaves the loop when framer.write fails
WriteBodyBreaksOnErr(st, ok) ==
    LET eom == st.len < (st.start + WEBSOCKET_PAYLOAD_LEN)
        hi  == IF eom THEN st.len ELSE st.start + WEBSOCKET_PAYLOAD_LEN
        n   == Len(st.frames) + 1
    IN  [len |-> st.len,
         start |-> st.start + WEBSOCKET_PAYLOAD_LEN,
         end_of_message |-> eom \/ ~ok,
         ret |-> IF ok THEN 0 ELSE n,
         frames |-> Append(st.frames, Frame("Binary", st.start, hi, eom, ok))]

\* one iteration of the while loop; ok says whether framer.write succeeds.
WriteBody(st, ok) ==
    LET eom == st.len < (st.start + WEBSOCKET_PAYLOAD_LEN)
        hi  == IF eom THEN st.len ELSE st.start + WEBSOCKET_PAYLOAD_LEN
        n   == Len(st.frames) + 1
    IN  [len |-> st.len,
         start |-> st.start + WEBSOCKET_PAYLOAD_LEN,
         end_of_message |-> eom,
         ret |-> IF ok THEN 0 ELSE n,
         frames |-> Append(st.frames, Frame("Binary", st.start, hi, eom, ok))]

\* the loop run to its end; fails is the set of framer.write calls that fail
RECURSIVE WriteLoop(_, _)
WriteLoop(st, fails) ==
    IF st.end_of_message THEN st
    ELSE WriteLoop(WriteBody(st, (Len(st.frames) + 1) \notin fails), fails)

\* write(framer, stream, buffer) for a buffer of len bytes
Write(len, fails) == WriteLoop(WriteEntry(len), fails)

\* number of framer.write calls write makes for a buffer of len bytes
WriteCalls(len) == Len(Write(len, {}).frames)

(* ---------------- write, step by step ---------------- *)
WInit == w \in { [pc |-> "loop", st |-> WriteEntry(len)] : len \in PayloadLens }

WriteIter ==
    /\ w.pc = "loop"
    /\ ~w.st.end_of_message
    /\ \E ok \in BOOLEAN : w' = [w EXCEPT !.st = WriteBody(w.st, ok)]

WriteReturn ==
    /\ w.pc = "loop"
    /\ w.st.end_of_message
    /\ w' = [w EXCEPT !.pc = "done"]

\* the value of w while the opcode loop, not write alone, is being explored
WIdle == [pc |-> "done", st |-> WriteEntry(0)]

(* ---------------- the store ---------------- *)
Callers == 1..NumPids
\* the pid of the websocket service itself: the sender of the tick pump's messages
BrokerPid == NumPids + 1
Senders == Callers \cup {BrokerPid}

\* xous message kinds
Kinds == {"Scalar", "BlockingScalar", "Move", "MutableBorrow"}

\* store.get_mut(&pid)
Lookup(pid) == { a \in store : a.pid = pid }
Has(pid) == Lookup(pid) # {}
Get(pid) == CHOOSE a \in store : a.pid = pid
\* framer.state() == WebSocketState::Open for the assets of pid
IsOpen(pid) == \E a \in Lookup(pid) : a.state = "Open"

\* an insert that keeps the entry already under the key
StoreInsertKeepsOld(st, a) == st \cup {a}

\* HashMap::insert: the entry replaces any entry under the same key
StoreInsert(st, a) == { b \in st : b.pid # a.pid } \cup {a}
\* a HashMap entry changed in place through get_mut
StoreUpdate(st, a) == { b \in st : b.pid # a.pid } \cup {a}

\* what a handler leaves behind: the store, what the caller gets, the frames
Outcome(st, kind, val, hint, frames) ==
    [store |-> st, kind |-> kind, val |-> val, hint |-> hint, frames |-> frames]

\* validate_msg(&mut msg, expected, opcode): the call kinds an opcode accepts
validate_msg(kind, expected) ==
    CASE expected = WsError_Scalar      -> kind = "Scalar"
      [] expected = WsError_ScalarBlock -> kind = "BlockingScalar"
      [] expected = WsError_Memory      -> kind \in {"Move", "MutableBorrow"}
      [] expected = WsError_MemoryBlock -> kind = "MutableBorrow"

Rejected == Outcome(store, "rejected", -1, "", <<>>)

\* a close that leaves a socket that was not open as a fresh, open one
FramerCloseReopens(a, ioOk) ==
    IF a.state = "Open"
    THEN [assets |-> [a EXCEPT !.state = "CloseSent"],
          frames |-> <<Frame("Close", 0, 2, TRUE, ioOk)>>, ok |-> ioOk]
    ELSE [assets |-> [a EXCEPT !.state = "Open"], frames |-> <<>>, ok |-> FALSE]

\* framer.close(stream, NormalClosure, None): an Open socket becomes CloseSent
\* and its close frame goes to the stream; any other socket is not open
FramerClose(a, ioOk) ==
    IF a.state = "Open"
    THEN [assets |-> [a EXCEPT !.state = "CloseSent"],
          frames |-> <<Frame("Close", 0, 2, TRUE, ioOk)>>, ok |-> ioOk]
    ELSE [assets |-> a, frames |-> <<>>, ok |-> FALSE]

\* framer.write(stream, Text, true, "keep alive please :-)")
KeepAliveLen == 21
FramerWriteText(a, ioOk) ==
    IF a.state = "Open"
    THEN [frames |-> <<Frame("Text", 0, KeepAliveLen, TRUE, ioOk)>>, ok |-> ioOk]
    ELSE [frames |-> <<>>, ok |-> FALSE]

(* ---------------- Opcode::Close ---------------- *)
\* a None arm that forgets to return the fault
CloseAbsentSilent(pid) == Outcome(store, "none", -1, "", <<>>)

\* the None arm of store.get_mut(&pid)
CloseAbsent(pid) == Outcome(store, "scalar", WsError_AssetsFault, "", <<>>)

CloseHandler(pid, kind, ioOk) ==
    IF ~validate_msg(kind, WsError_Scalar) THEN Rejected
    ELSE IF ~Has(pid) THEN CloseAbsent(pid)
    ELSE LET a == Get(pid) IN
         IF ~a.wss_stream /\ ~a.ws_stream
         THEN Outcome(store, "scalar", WsError_AssetsFault, "", <<>>)
         ELSE LET c == FramerClose(a, ioOk)
                  st == StoreUpdate(store, c.assets)
              IN  IF c.ok THEN Outcome(st, "none", -1, "", c.frames)
                  ELSE Outcome(st, "scalar", WsError_ProtocolError, "", c.frames)

(* ---------------- Opcode::Send ---------------- *)
SendHandler(pid, kind, len, fails) ==
    IF ~validate_msg(kind, WsError_Memory) THEN Rejected
    ELSE IF ~Has(pid) THEN Outcome(store, "unchanged", -1, "", <<>>)
    ELSE LET a == Get(pid) IN
         IF a.state # "Open"
         THEN Outcome(store, "hint", -1, "WebSocket DOA", <<>>)
         ELSE IF ~a.wss_stream /\ ~a.ws_stream
         THEN Outcome(store, "unchanged", -1, "", <<>>)
         ELSE LET r == Write(len, fails) IN
              IF r.ret = 0 THEN Outcome(store, "unchanged", -1, "", r.frames)
              ELSE Outcome(store, "hint", -1, "failed to send Websocket frame", r.frames)

(* ---------------- Opcode::State ---------------- *)
\* a None arm that answers as Close and Tick do
StateAbsentFault(pid) == Outcome(store, "scalar", WsError_AssetsFault, "", <<>>)

\* the None arm of store.get_mut(&pid)
StateAbsent(pid) == Outcome(store, "scalar", 0, "", <<>>)

StateHandler(pid, kind) ==
    IF ~validate_msg(kind, WsError_ScalarBlock) THEN Rejected
    ELSE IF ~Has(pid) THEN StateAbsent(pid)
    ELSE IF Get(pid).state = "Open" THEN Outcome(store, "scalar", 1, "", <<>>)
    ELSE Outcome(store, "none", -1, "", <<>>)

(* ---------------- Opcode::Tick ---------------- *)
TickHandler(pid, kind, ioOk) ==
    IF ~validate_msg(kind, WsError_Scalar) THEN Rejected
    ELSE IF ~Has(pid) THEN Outcome(store, "scalar", WsError_AssetsFault, "", <<>>)
    ELSE LET a == Get(pid) IN
         IF ~a.wss_stream /\ ~a.ws_stream
         THEN Outcome(store, "scalar", WsError_AssetsFault, "", <<>>)
         ELSE Outcome(store, "none", -1, "", FramerWriteText(a, ioOk).frames)

(* ---------------- Client::new: the connect sequence ---------------- *)
\* the step of the connect sequence that fails, if any
Failures(ca) ==
    {"none", "tcp", "clone", "handshake", "state"} \cup (IF ca THEN {"tls"} ELSE {})

\* the hint written back for the failing step
ConnectHint(failure) ==
    CASE failure = "tcp"       -> "Failed to open TCP Stream"
      [] failure = "clone"     -> "Failed to clone TCP Stream"
      [] failure = "tls"       -> "Failed to complete TLS handshake"
      [] failure = "handshake" -> "Unable to connect WebSocket"
      [] failure = "state"     -> "WebSocket failed to connect"
      [] OTHER                 -> ""

\* a connect sequence that never stores the stream of the handshake back
NewAssetsKeepsCleared(pid, ca) ==
    [pid |-> pid, wss_stream |-> FALSE, ws_stream |-> FALSE, state |-> "Open", cid |-> pid]

\* the assets after a connect sequence that went through: the stream is the
\* tls one exactly when a certificate authority was given
NewAssets(pid, ca) ==
    [pid |-> pid, wss_stream |-> ca, ws_stream |-> ~ca, state |-> "Open", cid |-> pid]

\* a Connect that clears the streams, as Client::new does first, and only then
\* finds the session Open
ConnectHandlerClearsFirst(pid, ca, failure) ==
    IF IsOpen(pid)
    THEN Outcome(StoreUpdate(store, [Get(pid) EXCEPT !.ws_stream = FALSE,
                                                      !.wss_stream = FALSE]),
                 "busy", -1, "", <<>>)
    ELSE IF failure # "none" THEN Outcome(store, "hint", -1, ConnectHint(failure), <<>>)
    ELSE Outcome(StoreInsert(store, NewAssets(pid, ca)), "subprotocol", -1, "", <<>>)

\* Connect as the dispatcher serves it: Busy over an Open session, otherwise
\* the connect sequence and, when it goes through, the entry in the store
ConnectHandler(pid, ca, failure) ==
    IF IsOpen(pid) THEN Outcome(store, "busy", -1, "", <<>>)
    ELSE IF failure # "none" THEN Outcome(store, "hint", -1, ConnectHint(failure), <<>>)
    ELSE Outcome(StoreInsert(store, NewAssets(pid, ca)), "subprotocol", -1, "", <<>>)

(* ---------------- the opcode loop ---------------- *)
\* the record of the request handled last
Reply(op, pid, call, r) ==
    [op |-> op, pid |-> pid, call |-> call, had |-> Has(pid), wasOpen |-> IsOpen(pid),
     kind |-> r.kind, val |-> r.val, hint |-> r.hint, posted |-> {}, ca |-> FALSE]

\* the frames the request handled last put on the stream of pid's session: a
\* handler only writes to the streams of the assets of its sender
FramesTo(pid) == IF pid = reply.pid THEN wire ELSE <<>>

NoReply ==
    [op |-> "none", pid |-> BrokerPid, call |-> "none", had |-> FALSE, wasOpen |-> FALSE,
     kind |-> "none", val |-> -1, hint |-> "", posted |-> {}, ca |-> FALSE]

\* main idle between two messages
Idle == [busy |-> FALSE, pending |-> <<>>, quit |-> FALSE]

\* the pump thread that starts its loop with a Tick instead of a sleep
PumpStartsPosting == [pc |-> "post", elapsed |-> 0, posted |-> 0]

\* spawn_tick_pump: the thread enters its loop at tt.sleep_ms
PumpStart == [pc |-> "sleep", elapsed |-> 0, posted |-> 0]

LoopIdle ==
    /\ queue = <<>>
    /\ cur = Idle
    /\ pump = PumpStart

\* no message is on its way through a relay
NoInbound == [pc |-> "idle", pid |-> BrokerPid, len |-> 0, start |-> 0, out |-> <<>>]

\* no poll thread exists and none has touched anything
PollIdle ==
    /\ polls = <<>>
    /\ acc = {}
    /\ inb = NoInbound

\* no Bitmap has been made
NoBitmap == [made |-> FALSE]

\* no modal item has been made
NoForm == [kind |-> "none"]

(* ---------------- llio: I2cStateMachine ---------------- *)
\* the longest txlen / rxlen initiate accepts
I2C_MAX_LEN == 31
\* a buffer of a transaction: Some(array) is the array, None is <<>>
ZeroBuf == [k \in 1..(I2C_MAX_LEN + 1) |-> 0]
\* the timeouts callers ask for, in ms
Timeouts == {1, 2}
\* the bytes the receive register delivers
RxBytes == {1, 2}

\* I2cTransaction::new(): no buffers, no lengths; tm is its timeout_ms
I2cTransaction_new(tm) ==
    [txbuf |-> <<>>, txlen |-> 0, rxbuf |-> <<>>, rxlen |-> 0,
     status |-> "Uninitialized", timeout_ms |-> tm]

\* I2cStateMachine::new at ticktimer time now
I2cStateMachine_new(now, tm) ==
    [state |-> "Idle", transaction |-> I2cTransaction_new(tm), index |-> 0,
     timestamp |-> now]

\* what a call leaves: the machine, the status returned, the responses sent
\* to the listeners in order, and the number of bus commands issued
Did(m, ret, emitted, cmds) == [m |-> m, ret |-> ret, emitted |-> emitted, cmds |-> cmds]

\* report_nack, report_timeout, report_write_done: a new transaction with
\* the status set
Report(status, tm) == [I2cTransaction_new(tm) EXCEPT !.status = status]

\* initiate past the check of the lengths: busy, or the transaction set up
initiate_started(m, t, now, tm) ==
    LET timedout == m.state # "Idle"
        emitted  == IF timedout THEN <<Report("ResponseTimeout", tm)>> ELSE <<>>
        m1 == [state |-> "Idle", index |-> IF timedout THEN 0 ELSE m.index,
               timestamp |-> now, transaction |-> t]
    IN  IF m.state # "Idle" /\ (now - m.timestamp) < m.transaction.timeout_ms
        THEN Did(m, "ResponseBusy", <<>>, 0)
        ELSE IF t.status = "RequestIncoming"
        THEN IF t.txbuf # <<>>
             THEN Did([m1 EXCEPT !.state = "Write", !.index = 0,
                                 !.transaction.status = "ResponseInProgress"],
                      "ResponseInProgress", emitted, 1)
             ELSE IF t.rxbuf # <<>>
             THEN Did([m1 EXCEPT !.state = "Read", !.index = 0,
                                 !.transaction.status = "ResponseInProgress"],
                      "ResponseInProgress", emitted, 1)
             ELSE Did([m1 EXCEPT !.transaction = I2cTransaction_new(tm)],
                      "ResponseFormatError", emitted, 0)
        ELSE Did(m1, "ResponseFormatError", emitted, 0)

\* an initiate without the check of the lengths
initiateAnyLength(m, t, now, tm) == initiate_started(m, t, now, tm)

\* an initiate that takes the time of a call it answers with ResponseBusy
initiateBusyStamps(m, t, now, tm) ==
    IF t.txlen > I2C_MAX_LEN \/ t.rxlen > I2C_MAX_LEN
    THEN Did(m, "ResponseFormatError", <<>>, 0)
    ELSE IF m.state # "Idle" /\ (now - m.timestamp) < m.transaction.timeout_ms
    THEN Did([m EXCEPT !.timestamp = now], "ResponseBusy", <<>>, 0)
    ELSE initiate_started(m, t, now, tm)

\* I2cStateMachine::initiate
initiate(m, t, now, tm) ==
    IF t.txlen > I2C_MAX_LEN \/ t.rxlen > I2C_MAX_LEN
    THEN Did(m, "ResponseFormatError", <<>>, 0)
    ELSE initiate_started(m, t, now, tm)

\* the Write arm of handler; ack: STATUS_RXACK reads 1
handler_Write(m0, ack, tm) ==
    IF m0.transaction.txbuf # <<>>
    THEN LET m1 == IF ack THEN m0
                   ELSE [m0 EXCEPT !.state = "Idle", !.transaction = I2cTransaction_new(tm)]
             e1 == IF ack THEN <<>> ELSE <<Report("ResponseNack", tm)>>
         IN  IF m1.index < m1.transaction.txlen
             THEN Did([m1 EXCEPT !.index = @ + 1], "none", e1, 1)
             ELSE IF m1.transaction.rxbuf # <<>>
             THEN Did([m1 EXCEPT !.state = "Read", !.index = 0], "none", e1, 1)
             ELSE Did([m1 EXCEPT !.state = "Idle"], "none",
                      Append(e1, Report("ResponseWriteOk", tm)), 0)
    ELSE Did(m0, "none", <<>>, 0)

\* a Read arm that asks for one byte more than rxlen
handler_ReadOneMore(m0, byte) ==
    IF m0.transaction.rxbuf # <<>>
    THEN IF m0.index <= m0.transaction.rxlen
         THEN Did([m0 EXCEPT !.index = @ + 1], "none", <<>>, 1)
         ELSE LET done == [m0.transaction EXCEPT !.status = "ResponseReadOk"]
              IN  Did([m0 EXCEPT !.transaction = done, !.state = "Idle"], "none",
                      <<done>>, 0)
    ELSE Did(m0, "none", <<>>, 0)

\* the Read arm of handler: the byte of the receive register goes into
\* rxbuf, the copy of self.transaction.rxbuf the if let has bound
handler_Read(m0, byte) ==
    IF m0.transaction.rxbuf # <<>>
    THEN IF m0.index < m0.transaction.rxlen
         THEN Did([m0 EXCEPT !.index = @ + 1], "none", <<>>, 1)
         ELSE LET done == [m0.transaction EXCEPT !.status = "ResponseReadOk"]
              IN  Did([m0 EXCEPT !.transaction = done, !.state = "Idle"], "none",
                      <<done>>, 0)
    ELSE Did(m0, "none", <<>>, 0)

\* I2cStateMachine::handler, run on the interrupt of the I2C block
handler(m, now, ack, byte, tm) ==
    IF now - m.timestamp > m.transaction.timeout_ms
    THEN Did([m EXCEPT !.state = "Idle", !.index = 0, !.timestamp = now], "none",
             <<Report("ResponseTimeout", tm)>>, 0)
    ELSE LET m0 == [m EXCEPT !.timestamp = now]
         IN  CASE m.state = "Write" -> handler_Write(m0, ack, tm)
               [] m.state = "Read"  -> handler_Read(m0, byte)
               [] OTHER             -> Did(m0, "none", <<>>, 0)

\* the machine after new, before any call; tm is the timeout_ms of
\* I2cTransaction::new()
I2cBoot(tm) ==
    [m |-> I2cStateMachine_new(0, tm), now |-> 0, tm |-> tm,
     last |-> [op |-> "new", ret |-> "none", emitted |-> <<>>, cmds |-> 0, long |-> FALSE],
     sent |-> <<>>, rcvd |-> <<>>, calls |-> 0, clean |-> TRUE]
NoI2c == I2cBoot(1)

\* the transactions callers hand to initiate
Transaction(tb, tl, rb, rl, st, tm) ==
    [txbuf |-> tb, txlen |-> tl, rxbuf |-> rb, rxlen |-> rl, status |-> st,
     timeout_ms |-> tm]
\* a length goes with a buffer; the longest write and the first lengths
\* past the limit are among them
TxLens == 0..MaxLen \cup {I2C_MAX_LEN, I2C_MAX_LEN + 1}
RxLens == 0..MaxLen \cup {I2C_MAX_LEN + 1}
Transactions ==
    { Transaction(ZeroBuf, tl, <<>>, 0, "RequestIncoming", tm) :
        tl \in TxLens, tm \in Timeouts } \cup
    { Transaction(<<>>, 0, ZeroBuf, rl, "RequestIncoming", tm) :
        rl \in RxLens, tm \in Timeouts } \cup
    { Transaction(ZeroBuf, tl, ZeroBuf, rl, "RequestIncoming", tm) :
        tl \in 0..MaxLen, rl \in 0..MaxLen, tm \in Timeouts } \cup
    { Transaction(<<>>, 0, <<>>, 0, "RequestIncoming", tm) : tm \in Timeouts } \cup
    { Transaction(ZeroBuf, 1, <<>>, 0, "Uninitialized", tm) : tm \in Timeouts }

\* a caller's I2C request reaches initiate
I2cInitiate(t) ==
    LET r  == initiate(i2c.m, t, i2c.now, i2c.tm)
        ok == r.ret = "ResponseInProgress"
    IN  /\ i2c' = [i2c EXCEPT
                     !.m = r.m,
                     !.last = [op |-> "initiate", ret |-> r.ret, emitted |-> r.emitted,
                               cmds |-> r.cmds,
                               long |-> t.txlen > I2C_MAX_LEN \/ t.rxlen > I2C_MAX_LEN],
                     !.sent = IF ok THEN <<>> ELSE @ \o r.emitted,
                     !.rcvd = IF r.m.state = "Read" /\ ~ok THEN @ ELSE <<>>,
                     !.calls = IF ok THEN 0 ELSE @,
                     !.clean = IF ok THEN TRUE ELSE @ /\ r.emitted = <<>>]
        /\ UNCHANGED <<w, brokerVars, loopVars, pollVars, bm, form>>

\* the interrupt of the I2C block: handler runs, finds the ack bit and the
\* receive register as the bus left them
I2cHandler(ack, byte) ==
    LET r      == handler(i2c.m, i2c.now, ack, byte, i2c.tm)
        inprog == i2c.m.state # "Idle"
        timed  == i2c.now - i2c.m.timestamp > i2c.m.transaction.timeout_ms
        reads  == ~timed /\ i2c.m.state = "Read" /\ i2c.m.index > 0
    IN  /\ i2c' = [i2c EXCEPT
                     !.m = r.m,
                     !.last = [op |-> "handler", ret |-> r.ret, emitted |-> r.emitted,
                               cmds |-> r.cmds, long |-> FALSE],
                     !.sent = IF inprog THEN @ \o r.emitted ELSE @,
                     !.rcvd = IF reads THEN Append(@, byte) ELSE @,
                     !.calls = IF inprog THEN @ + 1 ELSE @,
                     !.clean = @ /\ ~(inprog /\ timed) /\ (i2c.m.state = "Write" => ack)]
        /\ UNCHANGED <<w, brokerVars, loopVars, pollVars, bm, form>>

\* a millisecond passes
I2cElapse ==
    /\ i2c.now < MaxNow
    /\ i2c' = [i2c EXCEPT !.now = @ + 1]
    /\ UNCHANGED <<w, brokerVars, loopVars, pollVars, bm, form>>

InitI2c ==
    /\ w = WIdle
    /\ store = {}
    /\ reply = NoReply
    /\ wire = <<>>
    /\ running = FALSE
    /\ LoopIdle
    /\ PollIdle
    /\ bm = NoBitmap
    /\ \E tm \in Timeouts : i2c = I2cBoot(tm)
    /\ form = NoForm

NextI2c ==
    \/ \E t \in Transactions : I2cInitiate(t)
    \/ \E ack \in BOOLEAN, byte \in RxBytes : I2cHandler(ack, byte)
    \/ I2cElapse

SpecI2c == InitI2c /\ [][NextI2c]_vars

Init ==
    /\ w = WIdle
    /\ store = {}
    /\ reply = NoReply
    /\ wire = <<>>
    /\ running = TRUE
    /\ LoopIdle
    /\ PollIdle
    /\ bm = NoBitmap
    /\ i2c = NoI2c
    /\ form = NoForm

Connect(pid, ca, failure) ==
    /\ running
    /\ LET r == ConnectHandler(pid, ca, failure) IN
        /\ store' = r.store
        /\ reply' = [Reply("Connect", pid, "MutableBorrow", r) EXCEPT !.ca = ca]
        /\ wire' = r.frames
    /\ UNCHANGED <<pollVars, bm, i2c, form, w, running, loopVars>>

Close(pid, kind, ioOk) ==
    /\ running
    /\ LET r == CloseHandler(pid, kind, ioOk) IN
        /\ store' = r.store
        /\ reply' = Reply("Close", pid, kind, r)
        /\ wire' = r.frames
    /\ UNCHANGED <<pollVars, bm, i2c, form, w, running, loopVars>>

Send(pid, kind, len, fails) ==
    /\ running
    /\ LET r == SendHandler(pid, kind, len, fails) IN
        /\ store' = r.store
        /\ reply' = Reply("Send", pid, kind, r)
        /\ wire' = r.frames
    /\ UNCHANGED <<pollVars, bm, i2c, form, w, running, loopVars>>

State(pid, kind) ==
    /\ running
    /\ LET r == StateHandler(pid, kind) IN
        /\ store' = r.store
        /\ reply' = Reply("State", pid, kind, r)
        /\ wire' = r.frames
    /\ UNCHANGED <<pollVars, bm, i2c, form, w, running, loopVars>>

Tick(pid, kind, ioOk) ==
    /\ running
    /\ LET r == TickHandler(pid, kind, ioOk) IN
        /\ store' = r.store
        /\ reply' = Reply("Tick", pid, kind, r)
        /\ wire' = r.frames
    /\ UNCHANGED <<pollVars, bm, i2c, form, w, running, loopVars>>

\* Quit posts a Close to the cid of every entry of the store and leaves the loop
Quit(pid, kind) ==
    /\ running
    /\ IF ~validate_msg(kind, WsError_Scalar)
       THEN /\ reply' = Reply("Quit", pid, kind, Rejected)
            /\ UNCHANGED running
       ELSE /\ reply' = [Reply("Quit", pid, kind, Outcome(store, "none", -1, "", <<>>))
                            EXCEPT !.posted = { a.cid : a \in store }]
            /\ running' = FALSE
    /\ wire' = <<>>
    /\ UNCHANGED <<pollVars, bm, i2c, form, w, store, loopVars>>

\* the framer.write calls of a Send that may fail: those it makes
StreamFailures(pid, kind, len) ==
    IF validate_msg(kind, WsError_Memory) /\ IsOpen(pid)
    THEN SUBSET (1..WriteCalls(len)) ELSE {{}}
\* the payloads of a Send that gets as far as looking at its payload
Payloads(pid, kind) ==
    IF validate_msg(kind, WsError_Memory) /\ IsOpen(pid) THEN SendLens ELSE {0}
\* the outcomes of the one stream write of a Close or a Tick that gets that far
StreamOutcomes(pid, kind) ==
    IF validate_msg(kind, WsError_Scalar) /\ IsOpen(pid) THEN BOOLEAN ELSE {TRUE}

Next ==
    \/ \E pid \in Callers, ca \in BOOLEAN :
          \E failure \in Failures(ca) : Connect(pid, ca, failure)
    \/ \E pid \in Callers, kind \in Kinds :
          \E ioOk \in StreamOutcomes(pid, kind) : Close(pid, kind, ioOk)
    \/ \E pid \in Callers, kind \in Kinds :
          \E len \in Payloads(pid, kind) :
             \E fails \in StreamFailures(pid, kind, len) : Send(pid, kind, len, fails)
    \/ \E pid \in Callers, kind \in Kinds : State(pid, kind)
    \/ \E pid \in Senders, kind \in Kinds :
          \E ioOk \in StreamOutcomes(pid, kind) : Tick(pid, kind, ioOk)
    \/ \E pid \in Senders, kind \in Kinds : Quit(pid, kind)

Spec == Init /\ [][Next]_vars

(* ---------------- write alone ---------------- *)
InitWrite ==
    /\ WInit
    /\ store = {}
    /\ reply = NoReply
    /\ wire = <<>>
    /\ running = FALSE
    /\ LoopIdle
    /\ PollIdle
    /\ bm = NoBitmap
    /\ i2c = NoI2c
    /\ form = NoForm

NextWrite ==
    \/ WriteIter /\ UNCHANGED <<pollVars, bm, i2c, form, brokerVars, loopVars>>
    \/ WriteReturn /\ UNCHANGED <<pollVars, bm, i2c, form, brokerVars, loopVars>>

SpecWrite == InitWrite /\ [][NextWrite]_vars

\* write is sequential code: a call that has been entered keeps running
SpecWriteRuns == InitWrite /\ [][NextWrite]_vars /\ WF_vars(NextWrite)

(* ---------------- the server queue, main's loop and the tick pump ---------------- *)
\* the opcodes callers send, each as the call kind its handler validates
LoopOps == {"Connect", "Send", "Close", "Tick", "Quit"}
\* the payload of a queued Send: one full chunk and one byte, two frames
LoopLen == WEBSOCKET_PAYLOAD_LEN + 1

Msg(op, pid) == [op |-> op, pid |-> pid]
PumpTick == Msg("Tick", BrokerPid)

\* the call kind of a message of the queue
CallOf(op) ==
    CASE op \in {"Close", "Tick", "Quit"} -> "Scalar"
      [] OTHER                            -> "MutableBorrow"

\* the match on the opcode of the received message
Handle(m) ==
    CASE m.op = "Connect" -> ConnectHandler(m.pid, FALSE, "none")
      [] m.op = "Send"    -> SendHandler(m.pid, CallOf(m.op), LoopLen, {})
      [] m.op = "Close"   -> CloseHandler(m.pid, CallOf(m.op), TRUE)
      [] m.op = "Tick"    -> TickHandler(m.pid, CallOf(m.op), TRUE)
      [] m.op = "Quit"    -> Outcome(store, "none", -1, "", <<>>)

\* a dispatcher that takes the next message while a handler is still writing
DispatcherAlwaysReady == TRUE

\* xous::receive_message is called at the top of the loop, after the arm of
\* the previous message has run to its end
DispatcherReady == ~cur.busy

\* a caller sends a message to the server
Post(pid, op) ==
    /\ running
    /\ Len(SelectSeq(queue, LAMBDA m : m.pid \in Callers)) < MaxQueue
    /\ queue' = Append(queue, Msg(op, pid))
    /\ UNCHANGED <<pollVars, bm, i2c, form, w, brokerVars, cur, pump>>

Bump(n) == IF n < MaxTicks THEN n + 1 ELSE n

\* tt.sleep_ms(KEEPALIVE_TIMEOUT_SECONDS) returns; the Tick of the interval
\* before has been received by then
Elapse ==
    /\ running
    /\ pump.pc = "sleep"
    /\ \A i \in 1..Len(queue) : queue[i] # PumpTick
    /\ pump' = [pump EXCEPT !.pc = "post", !.elapsed = Bump(@)]
    /\ UNCHANGED <<pollVars, bm, i2c, form, w, brokerVars, queue, cur>>

\* xous::send_message(cid, Tick), then back to the top of the pump's loop
PostTick ==
    /\ running
    /\ pump.pc = "post"
    /\ queue' = Append(queue, PumpTick)
    /\ pump' = [pump EXCEPT !.pc = "sleep", !.posted = Bump(@)]
    /\ UNCHANGED <<pollVars, bm, i2c, form, w, brokerVars, cur>>

\* receive_message and the arm of the opcode up to its stream writes
Receive ==
    /\ running
    /\ DispatcherReady
    /\ queue # <<>>
    /\ LET m == Head(queue)
           r == Handle(m)
       IN  /\ store' = r.store
           /\ cur' = [busy |-> TRUE, pending |-> r.frames, quit |-> m.op = "Quit"]
           /\ reply' = IF m.op = "Quit"
                       THEN [Reply(m.op, m.pid, CallOf(m.op), r)
                               EXCEPT !.posted = { a.cid : a \in store }]
                       ELSE Reply(m.op, m.pid, CallOf(m.op), r)
    /\ queue' = Tail(queue)
    /\ wire' = <<>>
    /\ UNCHANGED <<pollVars, bm, i2c, form, w, running, pump>>

\* one framer write of the handler on the stream
WriteFrame ==
    /\ cur.busy
    /\ cur.pending # <<>>
    /\ wire' = Append(wire, Head(cur.pending))
    /\ cur' = [cur EXCEPT !.pending = Tail(@)]
    /\ UNCHANGED <<pollVars, bm, i2c, form, w, store, reply, running, queue, pump>>

\* the end of the arm; Quit breaks out of the loop
Complete ==
    /\ cur.busy
    /\ cur.pending = <<>>
    /\ running' = (running /\ ~cur.quit)
    /\ cur' = Idle
    /\ UNCHANGED <<pollVars, bm, i2c, form, w, store, reply, wire, queue, pump>>

NextLoop ==
    \/ \E pid \in Callers, op \in LoopOps : Post(pid, op)
    \/ Elapse
    \/ PostTick
    \/ Receive
    \/ WriteFrame
    \/ Complete

\* the threads are scheduled and the timer fires
LoopFairness ==
    /\ WF_vars(Elapse)
    /\ WF_vars(PostTick)
    /\ WF_vars(Receive)
    /\ WF_vars(WriteFrame)
    /\ WF_vars(Complete)

SpecLoop == Init /\ [][NextLoop]_vars /\ LoopFairness

(* ---------------- the poll threads ---------------- *)
\* Poll::new((ws_config.cid, ws_config.opcode, tcp_clone, ..)): the thread of
\* the sess-th session of pid, about to read; eof: its read will return
Poll_new(pid, sess) ==
    [pid |-> pid, sess |-> sess, cid |-> pid, pc |-> "read", eof |-> FALSE]

PollsOf(pid) == { i \in 1..Len(polls) : polls[i].pid = pid }
\* the number of the session of pid made last, 0 when it never had one
LastSession(pid) ==
    IF PollsOf(pid) = {} THEN 0
    ELSE CHOOSE n \in { polls[i].sess : i \in PollsOf(pid) } :
            \A i \in PollsOf(pid) : polls[i].sess <= n
\* the poll threads of the session pid has now
CurrentPolls(pid) == { i \in PollsOf(pid) : polls[i].sess = LastSession(pid) }

\* a spawn for each of the two stream fields handed to Poll::new
SpawnPollPerStream(pid) ==
    <<Poll_new(pid, LastSession(pid) + 1), Poll_new(pid, LastSession(pid) + 1)>>

\* Client::new, the Open arm: one Poll::new and one thread::spawn
SpawnPoll(pid) == <<Poll_new(pid, LastSession(pid) + 1)>>

\* what a thread touches: th is 0 for main and i for the i-th poll thread;
\* open: the session of pid was Open when it was touched
Touch(th, res, pid) == [th |-> th, res |-> res, pid |-> pid, open |-> IsOpen(pid)]

\* a State arm that decodes what is waiting in the read buffer
StateTouchesReadBuf(pid) == {Touch(0, "store", pid), Touch(0, "read_buf", pid)}

\* the State arm: store.get_mut, a Framer over the borrowed buffers, and
\* framer.state(), which looks at the socket alone
StateTouches(pid) == {Touch(0, "store", pid)}

\* what main touches when it serves m with outcome r: the store for the
\* lookup, the write buffer when a frame is encoded, and both buffers of the
\* session being made in the connect sequence
MainTouches(m, r) ==
    CASE m.op = "State"   -> StateTouches(m.pid)
      [] m.op = "Close"   -> {Touch(0, "store", m.pid)} \cup
                             (IF r.frames # <<>> THEN {Touch(0, "write_buf", m.pid)} ELSE {})
      [] m.op = "Connect" -> {Touch(0, "store", m.pid)} \cup
                             (IF r.kind # "busy"
                              THEN {Touch(0, "read_buf", m.pid), Touch(0, "write_buf", m.pid)}
                              ELSE {})
      [] OTHER            -> {}

\* the requests callers make while poll threads run
PollOps == {"Connect", "Close", "State"}
PollCallOf(op) ==
    CASE op = "Close" -> "Scalar"
      [] op = "State" -> "BlockingScalar"
      [] OTHER        -> "MutableBorrow"

\* the message a poll thread posts when its read has ended
PollMsg(i) == [op |-> "Notify", pid |-> BrokerPid, from |-> i]

\* an arm that takes the session of the thread that notified out of the store
NoneArmFinalizes(m) ==
    Outcome({ a \in store : a.pid # polls[m.from].pid }, "none", -1, "", <<>>)

\* the None arm of the match: an id that is no Opcode is logged
NoneArm(m) == Outcome(store, "none", -1, "", <<>>)

PollHandle(m) ==
    CASE m.op = "Connect" -> ConnectHandler(m.pid, FALSE, "none")
      [] m.op = "Close"   -> CloseHandler(m.pid, PollCallOf(m.op), TRUE)
      [] m.op = "State"   -> StateHandler(m.pid, PollCallOf(m.op))
      [] OTHER            -> NoneArm(m)

\* a Close arm that returns once the peer has answered the close frame
ArmWaitsForPeer(m) ==
    m.op = "Close" => \A i \in CurrentPolls(m.pid) : polls[i].eof

\* no arm of the match waits for anything but its own stream writes
ArmReturns(m) == TRUE

\* a caller sends a request to the server; the requests of callers come one
\* after the other here, what runs beside main is the poll threads
PollPost(pid, op) ==
    /\ running
    /\ \A k \in 1..Len(queue) : queue[k].pid \notin Callers
    /\ op = "Connect" =>
          Len(polls) + Len(SelectSeq(queue, LAMBDA m : m.op = "Connect")) < MaxPolls
    /\ queue' = Append(queue, Msg(op, pid))
    /\ acc' = {}
    /\ UNCHANGED <<w, brokerVars, cur, pump, polls, inb, bm, i2c, form>>

\* main receives the message at the head of the queue and runs its arm
PollServe ==
    /\ running
    /\ queue # <<>>
    /\ ArmReturns(Head(queue))
    /\ LET m == Head(queue)
           r == PollHandle(m)
       IN  /\ store' = r.store
           /\ reply' = Reply(m.op, m.pid, PollCallOf(m.op), r)
           /\ wire' = r.frames
           /\ acc' = MainTouches(m, r)
           /\ polls' = IF m.op = "Connect" /\ r.kind = "subprotocol"
                       THEN polls \o SpawnPoll(m.pid)
                       ELSE polls
    /\ queue' = Tail(queue)
    /\ UNCHANGED <<w, running, cur, pump, inb, bm, i2c, form>>

\* the peer closes the connection, or the connection breaks
PeerEnds(i) ==
    /\ polls[i].pc = "read" /\ ~polls[i].eof
    /\ polls' = [polls EXCEPT ![i].eof = TRUE]
    /\ acc' = {}
    /\ UNCHANGED <<w, brokerVars, loopVars, inb, bm, i2c, form>>

\* the read of the poll thread into its read buffer returns with EOF or an
\* error; the thread posts its one notification and ends
PollNotify(i) ==
    /\ polls[i].pc = "read" /\ polls[i].eof
    /\ polls' = [polls EXCEPT ![i].pc = "posted"]
    /\ queue' = Append(queue, PollMsg(i))
    /\ acc' = {Touch(i, "read_buf", polls[i].pid)}
    /\ UNCHANGED <<w, brokerVars, cur, pump, inb, bm, i2c, form>>

NextPoll ==
    \/ \E pid \in Callers, op \in PollOps : PollPost(pid, op)
    \/ PollServe
    \/ \E i \in 1..Len(polls) : PeerEnds(i)
    \/ \E i \in 1..Len(polls) : PollNotify(i)

SpecPoll == Init /\ [][NextPoll]_vars

(* ---------------- the relay of an inbound message ---------------- *)
\* a memory message to the subscriber: the bytes [lo, hi) of the inbound
\* message in one Frame, and whether it ends the message
Chunk(to, lo, hi, fin) == [to |-> to, lo |-> lo, hi |-> hi, fin |-> fin]

\* a relay that marks every chunk as the end of the message
RelayBodyAllFinal(st, cid) ==
    LET hi == IF st.start + WEBSOCKET_PAYLOAD_LEN < st.len
              THEN st.start + WEBSOCKET_PAYLOAD_LEN ELSE st.len
    IN  [st EXCEPT !.out = Append(@, Chunk(cid, st.start, hi, TRUE)),
                   !.start = hi,
                   !.pc = IF hi = st.len THEN "done" ELSE "relay"]

\* the next chunk of the message: at most WEBSOCKET_PAYLOAD_LEN bytes, marked
\* as the end of the message when it takes the last byte
RelayBody(st, cid) ==
    LET hi == IF st.start + WEBSOCKET_PAYLOAD_LEN < st.len
              THEN st.start + WEBSOCKET_PAYLOAD_LEN ELSE st.len
    IN  [st EXCEPT !.out = Append(@, Chunk(cid, st.start, hi, hi = st.len)),
                   !.start = hi,
                   !.pc = IF hi = st.len THEN "done" ELSE "relay"]

\* the poll thread of the session of inb.pid sends the next chunk to the cid
\* it was made with
RelayChunk ==
    /\ inb.pc = "relay"
    /\ \E i \in CurrentPolls(inb.pid) : inb' = RelayBody(inb, polls[i].cid)
    /\ UNCHANGED <<w, brokerVars, loopVars, polls, acc, bm, i2c, form>>

\* a session is Open, its poll thread has decoded a complete message of len bytes
InitRelay ==
    /\ w = WIdle
    /\ \E pid \in Callers, ca \in BOOLEAN, len \in PayloadLens :
          /\ store = {NewAssets(pid, ca)}
          /\ polls = <<Poll_new(pid, 1)>>
          /\ inb = [pc |-> "relay", pid |-> pid, len |-> len, start |-> 0, out |-> <<>>]
    /\ reply = NoReply
    /\ wire = <<>>
    /\ running = TRUE
    /\ LoopIdle
    /\ acc = {}
    /\ bm = NoBitmap
    /\ i2c = NoI2c
    /\ form = NoForm

NextRelay == RelayChunk

SpecRelay == InitRelay /\ [][NextRelay]_vars

(* ---------------- gam: Bitmap ---------------- *)
\* a Word is a u32
BITS_PER_WORD == 32
BITS_PER_TILE == WORDS_PER_TILE * BITS_PER_WORD

Point(x, y) == [x |-> x, y |-> y]
Rectangle(tl, br) == [tl |-> tl, br |-> br]
\* Rectangle::intersects_point
intersects_point(r, p) ==
    /\ r.tl.x <= p.x /\ p.x <= r.br.x
    /\ r.tl.y <= p.y /\ p.y <= r.br.y

Min(a, b) == IF a < b THEN a ELSE b
\* the match on x % y of new and tile_spec: x / y rounded up
CeilDiv(x, y) == IF x % y = 0 THEN x \div y ELSE x \div y + 1

\* a Tile: its bounding Rectangle, its width in words and its pixels; a Tile
\* made by Tile::new has no dark pixel. wild: a pixel outside the bound was set
Tile_new(bound, width_words) ==
    [bound |-> bound, width_words |-> width_words, dark |-> {}, wild |-> FALSE]
Tile_get_pixel(t, p) ==
    IF t.wild \/ ~intersects_point(t.bound, p) THEN "undefined"
    ELSE IF p \in t.dark THEN "Dark" ELSE "Light"
Tile_set_pixel(t, p, c) ==
    IF ~intersects_point(t.bound, p) THEN [t EXCEPT !.wild = TRUE]
    ELSE [t EXCEPT !.dark = IF c = "Dark" THEN @ \cup {p} ELSE @ \ {p}]

\* Bitmap::tile_spec
tile_spec(bm_size) ==
    LET bm_width_bits == 1 + bm_size.x
        exceeded == bm_width_bits > BITS_PER_TILE
        tile_width_bits == IF exceeded THEN WORDS_PER_TILE * BITS_PER_WORD ELSE bm_width_bits
        tile_width_words == IF exceeded THEN WORDS_PER_TILE
                            ELSE CeilDiv(bm_width_bits, BITS_PER_WORD)
        tile_height_bits == WORDS_PER_TILE \div tile_width_words
    IN  [tile_size |-> Point(tile_width_bits, tile_height_bits),
         tile_width_words |-> tile_width_words]

\* Bitmap::new: a single vertical strip of tiles, the last one cut at size.y
Bitmap_new(size) ==
    LET ts == tile_spec(size)
        tile_height == ts.tile_size.y
        bm_height == size.y + 1
        tile_count == CeilDiv(bm_height, tile_height)
    IN  [bound |-> Rectangle(Point(0, 0), size),
         tile_size |-> ts.tile_size,
         mosaic |-> [ i \in 1..tile_count |->
                        Tile_new(Rectangle(Point(0, (i - 1) * tile_height),
                                           Point(ts.tile_size.x - 1,
                                                 Min(i * tile_height - 1, size.y))),
                                 ts.tile_width_words) ]]

\* Bitmap::get_tile_index
get_tile_index(b, point) ==
    IF intersects_point(b.bound, point)
    THEN LET tile_width == b.tile_size.x
             tile_height == b.tile_size.y
             tile_size_bits == tile_width * tile_height
         IN  (point.x + point.y * tile_width) \div tile_size_bits
    ELSE 0

\* self.mosaic.as_slice()[tile] panics on an index past the last tile
InMosaic(b, point) == get_tile_index(b, point) + 1 \in 1..Len(b.mosaic)

\* Bitmap::get_pixel
get_pixel(b, point) ==
    IF ~InMosaic(b, point) THEN "panic"
    ELSE Tile_get_pixel(b.mosaic[get_tile_index(b, point) + 1], point)

\* Bitmap::set_pixel
set_pixel(b, point, color) ==
    [b EXCEPT !.mosaic[get_tile_index(b, point) + 1] = Tile_set_pixel(@, point, color)]

\* the columns explored: the first, the ends of a word and of a tile's width
Columns == {0, BITS_PER_WORD - 1, BITS_PER_WORD, BITS_PER_TILE - 1, BITS_PER_TILE}
Sizes == { Point(x, y) : x \in Columns, y \in 0..MaxY }
PointsIn(b) == { Point(x, y) : x \in { c \in Columns : c <= b.bound.br.x }, y \in 0..b.bound.br.y }
PixelColor == {"Light", "Dark"}

\* let bm = Bitmap::new(size)
BmNew(size) ==
    /\ ~bm.made
    /\ bm' = [made |-> TRUE, panicked |-> FALSE, now |-> Bitmap_new(size),
              before |-> Bitmap_new(size), call |-> "new", point |-> Point(0, 0),
              color |-> "Light", sets |-> 0]
    /\ UNCHANGED <<w, brokerVars, loopVars, pollVars, i2c, form>>

\* bm.set_pixel(point, color) on a point within bm.bound
BmSetPixel(point, color) ==
    /\ bm.made /\ ~bm.panicked
    /\ bm.sets < MaxSets
    /\ point \in PointsIn(bm.now)
    /\ bm' = IF InMosaic(bm.now, point)
             THEN [bm EXCEPT !.now = set_pixel(@, point, color), !.before = bm.now,
                             !.call = "set_pixel", !.point = point, !.color = color,
                             !.sets = @ + 1]
             ELSE [bm EXCEPT !.panicked = TRUE, !.before = bm.now,
                             !.call = "set_pixel", !.point = point, !.color = color,
                             !.sets = @ + 1]
    /\ UNCHANGED <<w, brokerVars, loopVars, pollVars, i2c, form>>

InitBitmap ==
    /\ w = WIdle
    /\ store = {}
    /\ reply = NoReply
    /\ wire = <<>>
    /\ running = FALSE
    /\ LoopIdle
    /\ PollIdle
    /\ bm = NoBitmap
    /\ i2c = NoI2c
    /\ form = NoForm

NextBitmap ==
    \/ \E size \in Sizes : BmNew(size)
    \/ /\ bm.made
       /\ \E point \in PointsIn(bm.now), color \in PixelColor : BmSetPixel(point, color)

SpecBitmap == InitBitmap /\ [][NextBitmap]_vars

(* ---------------- gam: modal items ---------------- *)
MAX_ITEMS == 8

\* a name: stem tells names apart by their first 64 bytes, over says that
\* the name goes on past them
Name(stem, over) == [stem |-> stem, over |-> over]
EmptyName == Name(0, FALSE)
\* ItemName::new: the name in a String::<64>, which holds its first 64 bytes
ItemName_new(name) == Name(name.stem, FALSE)

None == [some |-> FALSE]
Some(x) == [some |-> TRUE, name |-> x]
NoItems == [i \in 1..MAX_ITEMS |-> None]
\* the first empty slot of an array of items, 0 when it is full
FirstNone(a) ==
    IF \E i \in 1..MAX_ITEMS : ~a[i].some
    THEN CHOOSE i \in 1..MAX_ITEMS : ~a[i].some /\ \A j \in 1..(i - 1) : a[j].some
    ELSE 0
\* the first slot that holds name, 0 when none does
FirstOf(a, name) ==
    IF \E i \in 1..MAX_ITEMS : a[i].some /\ a[i].name = name
    THEN CHOOSE i \in 1..MAX_ITEMS :
            /\ a[i].some /\ a[i].name = name
            /\ \A j \in 1..(i - 1) : ~(a[j].some /\ a[j].name = name)
    ELSE 0

\* CheckBoxPayload::contains
CheckBoxPayload_contains(p, name) == FirstOf(p, name) # 0

\* an add that does not look for the name first
CheckBoxPayload_addAgain(p, name) ==
    IF FirstNone(p) # 0
    THEN [p |-> [p EXCEPT ![FirstNone(p)] = Some(ItemName_new(name))], ret |-> TRUE]
    ELSE [p |-> p, ret |-> FALSE]

\* CheckBoxPayload::add
CheckBoxPayload_add(p, name) ==
    IF CheckBoxPayload_contains(p, name) THEN [p |-> p, ret |-> TRUE]
    ELSE IF FirstNone(p) # 0
    THEN [p |-> [p EXCEPT ![FirstNone(p)] = Some(ItemName_new(name))], ret |-> TRUE]
    ELSE [p |-> p, ret |-> FALSE]

\* CheckBoxPayload::remove
CheckBoxPayload_remove(p, name) ==
    IF FirstOf(p, name) # 0
    THEN [p |-> [p EXCEPT ![FirstOf(p, name)] = None], ret |-> TRUE]
    ELSE [p |-> p, ret |-> FALSE]

\* RadioButtons::new and CheckBoxes::new
RadioButtons_new ==
    [kind |-> "radio", items |-> NoItems, action_payload |-> EmptyName,
     select_index |-> 0, max_items |-> 0, close |-> FALSE]
CheckBoxes_new ==
    [kind |-> "check", items |-> NoItems, action_payload |-> NoItems,
     select_index |-> 0, max_items |-> 0, close |-> FALSE]

\* CheckBoxes::add_item, and the part RadioButtons::add_item shares with it
add_item(f, new_item) ==
    IF FirstNone(f.items) # 0
    THEN [f EXCEPT !.max_items = @ + 1, !.items[FirstNone(f.items)] = Some(new_item)]
    ELSE f

\* RadioButtons::add_item: the first item added is the default selection
RadioButtons_add_item(f, new_item) ==
    add_item(IF f.action_payload = EmptyName
             THEN [f EXCEPT !.action_payload = ItemName_new(new_item)] ELSE f,
             new_item)

\* the item at position idx, counted from 0 over the slots that hold one
ItemAt(f, idx) ==
    LET held == { i \in 1..MAX_ITEMS :
                    f.items[i].some /\
                    Cardinality({ j \in 1..(i - 1) : f.items[j].some }) = idx }
    IN  IF held = {} THEN None ELSE f.items[CHOOSE i \in held : TRUE]

\* the up and down arms, the same in RadioButtons and CheckBoxes
Navigate(f, k) ==
    CASE k = "up"   -> IF f.select_index > 0
                       THEN [f EXCEPT !.select_index = @ - 1] ELSE f
      [] k = "down" -> IF f.select_index < f.max_items + 1
                       THEN [f EXCEPT !.select_index = @ + 1] ELSE f
      [] OTHER      -> f

\* RadioButtons::key_action
RadioButtons_key_action(f, k) ==
    IF k = "select"
    THEN IF f.select_index < f.max_items
         THEN IF ItemAt(f, f.select_index).some
              THEN [f EXCEPT !.action_payload = ItemName_new(ItemAt(f, f.select_index).name),
                             !.close = FALSE]
              ELSE [f EXCEPT !.close = FALSE]
         ELSE [f EXCEPT !.close = TRUE]
    ELSE [Navigate(f, k) EXCEPT !.close = FALSE]

\* CheckBoxes::key_action
CheckBoxes_key_action(f, k) ==
    IF k = "select"
    THEN IF f.select_index < f.max_items
         THEN IF ItemAt(f, f.select_index).some
              THEN LET name == ItemAt(f, f.select_index).name
                   IN  [f EXCEPT !.action_payload =
                                     IF CheckBoxPayload_contains(@, name)
                                     THEN CheckBoxPayload_remove(@, name).p
                                     ELSE CheckBoxPayload_add(@, name).p,
                                  !.close = FALSE]
              ELSE [f EXCEPT !.close = FALSE]
         ELSE [f EXCEPT !.close = TRUE]
    ELSE [Navigate(f, k) EXCEPT !.close = FALSE]

\* a TextEntry with an empty payload, fully visible
TextEntry_new ==
    [kind |-> "text", action_payload |-> <<>>, visibility |-> 0, close |-> FALSE,
     panicked |-> "", key |-> "none", before |-> <<>>]

\* the backspace arm: the payload is cleared and its first cur_len - 1
\* characters pushed back. With cur_len 0 the usize subtraction panics in a
\* build with overflow checks; without them the range is 0..usize::MAX and
\* the first c_iter.next().unwrap() panics
Backspace(f, checks) ==
    LET cur_len == Len(f.action_payload)
    IN  IF cur_len = 0
        THEN [f EXCEPT !.action_payload = <<>>,
                       !.panicked = IF checks THEN "attempt to subtract with overflow"
                                    ELSE "called unwrap on a None value"]
        ELSE [f EXCEPT !.action_payload = SubSeq(@, 1, cur_len - 1)]

\* TextEntry::key_action; valid: the validator, if any, accepts the payload
TextEntry_key_action(f, k, valid, checks) ==
    CASE k = "left"      -> IF f.visibility > 0 THEN [f EXCEPT !.visibility = @ - 1] ELSE f
      [] k = "right"     -> IF f.visibility < 2 THEN [f EXCEPT !.visibility = @ + 1] ELSE f
      [] k = "enter"     -> IF valid THEN [f EXCEPT !.action_payload = <<>>, !.close = TRUE]
                            ELSE [f EXCEPT !.action_payload = <<>>]
      [] k = "backspace" -> Backspace(f, checks)
      [] k \in {"updown", "null"} -> f
      [] OTHER           -> [f EXCEPT !.action_payload = Append(@, k)]

\* the names handed to add and remove: nine that fit an ItemName, and one
\* that is longer than 64 bytes
ShortNames == { Name(i, FALSE) : i \in 1..(MAX_ITEMS + 1) }
LongName == Name(MAX_ITEMS + 2, TRUE)
Names == ShortNames \cup {LongName}
\* a CheckBoxPayload after add of the first k short names
Filled(k) == [i \in 1..MAX_ITEMS |-> IF i <= k THEN Some(Name(i, FALSE)) ELSE None]
Payload_new(k) ==
    [kind |-> "payload", p |-> Filled(k), before |-> Filled(k), op |-> "new",
     name |-> EmptyName, ret |-> TRUE, ops |-> 0, fit |-> TRUE]
\* the items a form is given
ItemNames == { Name(1, FALSE), Name(2, FALSE) }
ListKeys == {"up", "down", "select", "other"}
Chars == {"a", "b"}
TextKeys == {"left", "right", "enter", "backspace", "updown", "null"} \cup Chars

RadioAddItem(name) ==
    /\ form.kind = "radio"
    /\ form' = [RadioButtons_add_item(form, name) EXCEPT !.close = FALSE]
    /\ UNCHANGED <<w, brokerVars, loopVars, pollVars, bm, i2c>>

RadioKey(k) ==
    /\ form.kind = "radio"
    /\ form' = RadioButtons_key_action(form, k)
    /\ UNCHANGED <<w, brokerVars, loopVars, pollVars, bm, i2c>>

CheckAddItem(name) ==
    /\ form.kind = "check"
    /\ form' = [add_item(form, name) EXCEPT !.close = FALSE]
    /\ UNCHANGED <<w, brokerVars, loopVars, pollVars, bm, i2c>>

CheckKey(k) ==
    /\ form.kind = "check"
    /\ form' = CheckBoxes_key_action(form, k)
    /\ UNCHANGED <<w, brokerVars, loopVars, pollVars, bm, i2c>>

PayloadAdd(name) ==
    /\ form.kind = "payload"
    /\ form.ops < MaxOps
    /\ LET r == CheckBoxPayload_add(form.p, name)
       IN  form' = [form EXCEPT !.p = r.p, !.before = form.p, !.op = "add",
                                !.name = name, !.ret = r.ret, !.ops = @ + 1,
                                !.fit = @ /\ ~name.over]
    /\ UNCHANGED <<w, brokerVars, loopVars, pollVars, bm, i2c>>

PayloadRemove(name) ==
    /\ form.kind = "payload"
    /\ form.ops < MaxOps
    /\ LET r == CheckBoxPayload_remove(form.p, name)
       IN  form' = [form EXCEPT !.p = r.p, !.before = form.p, !.op = "remove",
                                !.name = name, !.ret = r.ret, !.ops = @ + 1,
                                !.fit = @ /\ ~name.over]
    /\ UNCHANGED <<w, brokerVars, loopVars, pollVars, bm, i2c>>

TextKey(k, valid, checks) ==
    /\ form.kind = "text"
    /\ form.panicked = "" /\ ~form.close
    /\ k \in Chars => Len(form.action_payload) < MaxText
    /\ form' = [TextEntry_key_action(form, k, valid, checks) EXCEPT
                   !.key = k, !.before = form.action_payload]
    /\ UNCHANGED <<w, brokerVars, loopVars, pollVars, bm, i2c>>

InitModal ==
    /\ w = WIdle
    /\ store = {}
    /\ reply = NoReply
    /\ wire = <<>>
    /\ running = FALSE
    /\ LoopIdle
    /\ PollIdle
    /\ bm = NoBitmap
    /\ i2c = NoI2c
    /\ form \in {RadioButtons_new, CheckBoxes_new, TextEntry_new} \cup
                { Payload_new(k) : k \in 0..MAX_ITEMS }

NextModal ==
    \/ \E name \in ItemNames : RadioAddItem(name)
    \/ \E k \in ListKeys : RadioKey(k)
    \/ \E name \in ItemNames : CheckAddItem(name)
    \/ \E k \in ListKeys : CheckKey(k)
    \/ \E name \in Names : PayloadAdd(name)
    \/ \E name \in Names : PayloadRemove(name)
    \/ \E k \in TextKeys, valid \in BOOLEAN, checks \in BOOLEAN : TextKey(k, valid, checks)

SpecModal == InitModal /\ [][NextModal]_vars

(* ======================= the claims ======================= *)

Thm_C2_StateAbsentIsZero ==
    [][ (reply'.op = "State" /\ reply'.kind # "rejected" /\ ~reply'.had)
          => (reply'.kind = "scalar" /\ reply'.val = 0 /\ store' = store) ]_vars

Wit_C2_StateAbsent ==
    /\ reply.op = "State" /\ ~reply.had
    /\ reply.kind = "scalar" /\ reply.val = 0
    /\ store # {}

\* C3: every State request is answered with one scalar, and the scalar is 1
\* exactly when the caller's session is Open (0 when it is registered but not
\* Open, or absent).
Cex_C3_StateAlwaysAnswered ==
    (reply.op = "State" /\ reply.kind # "rejected")
        => /\ reply.kind = "scalar"
           /\ reply.val \in {0, 1}
           /\ (reply.val = 1) <=> reply.wasOpen

\* C4: of two consecutive Close requests of a process with a registered
\* session, the first succeeds and the second is answered AssetsFault.
Cex_C4_CloseThenClose ==
    [][ ( /\ reply.op = "Close" /\ reply.kind # "rejected" /\ reply.had
          /\ reply'.op = "Close" /\ reply'.kind # "rejected"
          /\ reply'.pid = reply.pid )
          => ( /\ reply.kind = "none"
               /\ reply'.kind = "scalar" /\ reply'.val = WsError_AssetsFault ) ]_vars

\* C5: a Close request of a process whose session exists, in any state,
\* removes the session from the store.
Cex_C5_CloseRemoves ==
    (reply.op = "Close" /\ reply.kind # "rejected" /\ reply.had)
        => ~Has(reply.pid)

\* C6: a Close request of a process with no entry in the store is answered
\* AssetsFault, writes no frame and leaves the store as it was.
Thm_C6_CloseAbsentIsFault ==
    [][ (reply'.op = "Close" /\ reply'.kind # "rejected" /\ ~reply'.had)
          => ( /\ reply'.kind = "scalar" /\ reply'.val = WsError_AssetsFault
               /\ wire' = <<>>
               /\ store' = store ) ]_vars

Wit_C6_CloseAbsent ==
    /\ reply.op = "Close" /\ ~reply.had
    /\ reply.kind = "scalar" /\ reply.val = WsError_AssetsFault
    /\ wire = <<>>
    /\ store # {}

\* C7: after a Send on an Open session failed on the stream (a hint came
\* back) the session stays in the store but is no longer Open: the next State
\* of that process is answered 0.
Cex_C7_SendFailureFaults ==
    [][ ( /\ reply.op = "Send" /\ reply.wasOpen /\ reply.kind = "hint"
          /\ reply'.op = "State" /\ reply'.kind # "rejected"
          /\ reply'.pid = reply.pid )
          => ( /\ Has(reply.pid)
               /\ reply'.kind = "scalar" /\ reply'.val = 0 ) ]_vars

\* C8: a Send ends with its whole payload written to the caller's Open
\* session, or with a hint written back; a Send whose session is absent or
\* not Open writes no frame and ends with a hint.
Cex_C8_SendAckOrHint ==
    (reply.op = "Send" /\ reply.kind # "rejected")
        => /\ \/ reply.kind = "hint"
              \/ /\ reply.wasOpen
                 /\ wire # <<>>
                 /\ \A i \in 1..Len(wire) : wire[i].ok
           /\ ~reply.wasOpen => (wire = <<>> /\ reply.kind = "hint")

\* C9: write on a payload longer than one chunk emits ceil(len / chunk)
\* frames, all but the last not final, the last final, and the slices are the
\* payload in order.
Cex_C9_CeilFrames ==
    (w.pc = "done" /\ w.st.len > WEBSOCKET_PAYLOAD_LEN)
        => LET fs == w.st.frames
               n  == Len(fs)
           IN  /\ n = (w.st.len + WEBSOCKET_PAYLOAD_LEN - 1) \div WEBSOCKET_PAYLOAD_LEN
               /\ \A i \in 1..n : fs[i].fin <=> (i = n)
               /\ fs[1].lo = 0
               /\ fs[n].hi = w.st.len
               /\ \A i \in 1..(n - 1) : fs[i + 1].lo = fs[i].hi

\* C10: write on a payload of exactly one chunk emits one final frame, and no
\* frame of a non-empty payload is empty.
Cex_C10_NoEmptyFrame ==
    w.pc = "done"
        => /\ (w.st.len = WEBSOCKET_PAYLOAD_LEN)
                => (Len(w.st.frames) = 1 /\ w.st.frames[1].fin)
           /\ (w.st.len > 0)
                => \A i \in 1..Len(w.st.frames) : w.st.frames[i].hi > w.st.frames[i].lo

\* C11: no frame write hands the framer more than WEBSOCKET_PAYLOAD_LEN
\* bytes, so header and payload fit the write buffer of WEBSOCKET_BUFFER_LEN.
Thm_C11_FrameFitsBuffer ==
    \A i \in 1..Len(w.st.frames) :
        /\ w.st.frames[i].hi - w.st.frames[i].lo <= WEBSOCKET_PAYLOAD_LEN
        /\ WEBSOCKET_HEADER_LEN + (w.st.frames[i].hi - w.st.frames[i].lo)
              <= WEBSOCKET_BUFFER_LEN

Wit_C11_FullChunkThenMore ==
    /\ w.pc = "done"
    /\ w.st.len > 2 * WEBSOCKET_PAYLOAD_LEN
    /\ \E i \in 1..Len(w.st.frames) :
          w.st.frames[i].hi - w.st.frames[i].lo = WEBSOCKET_PAYLOAD_LEN

\* C12: write returns the first error of its frame writes: the error of the
\* first frame that failed, whatever later frames do, and Ok only if none failed.
Cex_C12_FirstErrorReturned ==
    w.pc = "done"
        => LET failed == { i \in 1..Len(w.st.frames) : ~w.st.frames[i].ok }
           IN  IF failed = {} THEN w.st.ret = 0
               ELSE w.st.ret = CHOOSE i \in failed : \A j \in failed : i <= j

\* C13: a Tick (a scalar, from a caller or from the tick pump) puts one
\* non-empty keepalive text frame on the stream of every Open session.
Cex_C13_TickReachesEveryOpenSession ==
    (reply.op = "Tick" /\ reply.kind # "rejected")
        => \A a \in store :
              a.state = "Open"
                => /\ Len(FramesTo(a.pid)) = 1
                   /\ FramesTo(a.pid)[1].type = "Text"
                   /\ FramesTo(a.pid)[1].hi > FramesTo(a.pid)[1].lo

\* C14: a Tick leaves the store as it was and returns no value to anyone,
\* also when the keepalive write fails or no session exists.
Cex_C14_TickSilent ==
    [][ (reply'.op = "Tick" /\ reply'.kind # "rejected")
          => (store' = store /\ reply'.kind = "none") ]_vars

\* C15: a Quit puts a close frame on the stream of every session that is
\* Open, leaves the loop, and no session is Open afterwards.
Cex_C15_QuitClosesAll ==
    [][ (reply'.op = "Quit" /\ reply'.kind # "rejected")
          => ( /\ ~running'
               /\ \A a \in store :
                     a.state = "Open"
                       => \E i \in 1..Len(FramesTo(a.pid)') :
                             FramesTo(a.pid)'[i].type = "Close"
               /\ \A p \in Callers : ~IsOpen(p)' ) ]_vars

\* C16: a request whose call kind is not the one listed for its opcode (Close,
\* Tick, Quit: scalar; State: blocking scalar; Send: blocking memory) is
\* rejected: the store stays as it was and no frame is written.
Cex_C16_WrongKindRejected ==
    [][ ( \/ reply'.op \in {"Close", "Tick", "Quit"} /\ reply'.call # "Scalar"
          \/ reply'.op = "State" /\ reply'.call # "BlockingScalar"
          \/ reply'.op = "Send" /\ reply'.call # "MutableBorrow" )
          => (reply'.kind = "rejected" /\ store' = store /\ wire' = <<>>) ]_vars

\* C19: a Connect that fails at any step leaves no session of the caller in
\* the store and gives the caller a hint; the next State of the caller is
\* answered 0.
Cex_C19_FailedConnectLeavesNothing ==
    [][ /\ (reply'.op = "Connect" /\ reply'.kind = "hint")
            => (reply'.hint # "" /\ ~\E a \in store' : a.pid = reply'.pid)
        /\ ( /\ reply.op = "Connect" /\ reply.kind = "hint"
             /\ reply'.op = "State" /\ reply'.kind # "rejected"
             /\ reply'.pid = reply.pid )
            => (reply'.kind = "scalar" /\ reply'.val = 0) ]_vars

Thm_C17_NoInterleavedFrames ==
    [][ (wire # <<>> /\ cur.pending # <<>>)
          => /\ store' = store
             /\ wire' \in {wire, Append(wire, Head(cur.pending))} ]_vars

Wit_C17_SendWhileOthersWait ==
    /\ reply.op = "Send"
    /\ Len(wire) = 1 /\ ~wire[1].fin
    /\ cur.pending # <<>>
    /\ \E i, j \in 1..Len(queue) :
          /\ queue[i] = PumpTick
          /\ queue[j].op \in {"Send", "Close"}

\* C18: while the service runs the pump posts a Tick per elapsed interval,
\* never one ahead of the intervals, and goes on doing so for ever.
Thm_C18_PumpTicksForever ==
    /\ [](pump.posted <= pump.elapsed)
    /\ [](pump.pc = "sleep" => pump.posted = pump.elapsed)
    /\ \/ []<>(pump.pc = "post") /\ []<>(pump.pc = "sleep")
       \/ <>(~running)

Wit_C18_SecondTickPosted ==
    /\ pump.posted = 2
    /\ pump.pc = "sleep"
    /\ \E i \in 1..Len(queue) : queue[i] = PumpTick

\* the place of a socket state on the way Open, closing, closed or faulted
StateRank(st) ==
    CASE st = "Open"      -> 1
      [] st = "CloseSent" -> 2
      [] OTHER            -> 3

Cex_C29_SetThenGet ==
    bm.made =>
      /\ ~bm.panicked
      /\ bm.call = "new" => \A q \in PointsIn(bm.now) : get_pixel(bm.now, q) = "Light"
      /\ bm.call = "set_pixel" =>
            /\ get_pixel(bm.now, bm.point) = bm.color
            /\ \A q \in PointsIn(bm.now) \ {bm.point} :
                  get_pixel(bm.now, q) = get_pixel(bm.before, q)

\* main takes the message at the head of the queue
Served(op) == queue # <<>> /\ queue' = Tail(queue) /\ Head(queue).op = op

PollStep(i) ==
    /\ Len(polls') = Len(polls)
    /\ polls'[i].pc # polls[i].pc

Cex_C25_NotifiedSessionFinalized ==
    [][ (Served("Notify") /\ Head(queue).from \in CurrentPolls(polls[Head(queue).from].pid))
          => ~\E a \in store' : a.pid = polls[Head(queue).from].pid /\ a.state = "Open" ]_vars

\* C26: serving the notification of a poll thread changes no entry of the
\* store, whether the session of the thread was closed before or a new
\* session of the same process is Open by then.
Thm_C26_LateNotifyIsNoOp ==
    [][ Served("Notify") => store' = store ]_vars

Wit_C26_NotifyAfterReconnect ==
    /\ reply.op = "Notify"
    /\ Len(polls) = 2
    /\ polls[1].pc = "posted" /\ polls[2].pid = polls[1].pid
    /\ \A i \in 1..Len(queue) : queue[i].op # "Notify"
    /\ IsOpen(polls[1].pid)

\* C27: after a Close that found the session of its caller, the transport of
\* the session is shut down: the read of its poll thread returns.
Cex_C27_CloseShutsTransport ==
    (reply.op = "Close" /\ reply.had /\ reply.kind = "none") =>
       \A i \in CurrentPolls(reply.pid) : polls[i].eof

Thm_C31_WriteEndsWithOneFinal ==
    /\ <>(w.pc = "done")
    /\ [](/\ Len(w.st.frames) <= w.st.len \div WEBSOCKET_PAYLOAD_LEN + 1
          /\ \A k \in 1..Len(w.st.frames) :
                w.st.frames[k].fin => k = Len(w.st.frames)
          /\ w.pc = "done" =>
                /\ w.st.frames # <<>>
                /\ w.st.frames[Len(w.st.frames)].fin)

Wit_C31_ReturnedAfterFailedFrame ==
    /\ w.pc = "done"
    /\ Len(w.st.frames) = 3
    /\ ~w.st.frames[1].ok
    /\ w.st.frames[3].ok

\* a call of initiate, and a call of handler, as a step
InitiateStep == i2c' # i2c /\ i2c'.now = i2c.now /\ i2c'.last.op = "initiate"
HandlerStep == i2c' # i2c /\ i2c'.now = i2c.now /\ i2c'.last.op = "handler"
\* the statuses of a sequence of responses
Statuses(rs) == { rs[k].status : k \in 1..Len(rs) }

\* C32: the listeners get at most one response for an accepted transaction,
\* and never ResponseNack and ResponseWriteOk for the same one.
Cex_C32_OneTerminalResponse ==
    /\ Len(i2c.sent) <= 1
    /\ ~({"ResponseNack", "ResponseWriteOk"} \subseteq Statuses(i2c.sent))

\* C33: the ResponseReadOk transaction holds in rxbuf[0 .. rxlen) the bytes
\* handler read from the receive register, in their order.
Cex_C33_ReadOkCarriesBytes ==
    \A k \in 1..Len(i2c.last.emitted) :
       i2c.last.emitted[k].status = "ResponseReadOk" =>
          /\ Len(i2c.rcvd) = i2c.last.emitted[k].rxlen
          /\ \A j \in 1..Len(i2c.rcvd) : i2c.last.emitted[k].rxbuf[j] = i2c.rcvd[j]

\* C34 as stated: an initiate that finds a transaction in progress whose
\* timeout has not elapsed returns ResponseBusy and changes nothing.
Cex_C34_BusyWhateverLength ==
    [][ (InitiateStep /\ i2c.m.state # "Idle"
            /\ i2c.now - i2c.m.timestamp < i2c.m.transaction.timeout_ms) =>
          /\ i2c'.last.ret = "ResponseBusy"
          /\ i2c'.m = i2c.m
          /\ i2c'.last.cmds = 0
          /\ i2c'.last.emitted = <<>> ]_vars

\* C34: an initiate that finds a transaction in progress whose timeout has
\* not elapsed returns ResponseBusy, or ResponseFormatError when txlen or
\* rxlen of its argument is over 31, and either way leaves state, transaction,
\* index and timestamp as they were, issues no bus command and sends nothing
\* to the listeners.
Thm_C34_BusyLeavesMachine ==
    [][ (InitiateStep /\ i2c.m.state # "Idle"
            /\ i2c.now - i2c.m.timestamp < i2c.m.transaction.timeout_ms) =>
          /\ i2c'.last.ret = IF i2c'.last.long THEN "ResponseFormatError" ELSE "ResponseBusy"
          /\ i2c'.m = i2c.m
          /\ i2c'.last.cmds = 0
          /\ i2c'.last.emitted = <<>> ]_vars

Wit_C34_BusyDuringRead ==
    /\ i2c.last.op = "initiate" /\ i2c.last.ret = "ResponseBusy"
    /\ i2c.m.state = "Read" /\ i2c.m.index = 1
    /\ i2c.now - i2c.m.timestamp < i2c.m.transaction.timeout_ms
    /\ i2c.calls = 1

\* C35: a call of initiate or of handler that finds the machine Idle sends
\* no ResponseTimeout.
Cex_C35_NoTimeoutWhenIdle ==
    [][ ((InitiateStep \/ HandlerStep) /\ i2c.m.state = "Idle") =>
          "ResponseTimeout" \notin Statuses(i2c'.last.emitted) ]_vars

\* the handler calls an accepted transaction takes when nothing goes wrong
Need(t) ==
    (IF t.txbuf # <<>> THEN t.txlen + 1 ELSE 0) + (IF t.rxbuf # <<>> THEN t.rxlen + 1 ELSE 0)

\* C36: while every byte is acknowledged and no timeout elapses, a handler
\* call on a transaction in progress is at most its Need-th; the machine is
\* Idle again exactly after that call, having sent ResponseReadOk when the
\* transaction has a read buffer and ResponseWriteOk otherwise, and nothing
\* before; Write goes to Read only at call txlen + 1 and Read never goes to
\* Write.
Thm_C36_CleanTransactionEnds ==
    [][ (HandlerStep /\ i2c.m.state # "Idle" /\ i2c'.clean) =>
          /\ i2c'.calls <= Need(i2c.m.transaction)
          /\ (i2c'.m.state = "Idle") = (i2c'.calls = Need(i2c.m.transaction))
          /\ i2c'.m.state = "Idle" =>
                Statuses(i2c'.sent) =
                   {IF i2c.m.transaction.rxbuf # <<>> THEN "ResponseReadOk"
                                                     ELSE "ResponseWriteOk"}
          /\ i2c'.m.state # "Idle" => i2c'.sent = <<>>
          /\ ~(i2c.m.state = "Read" /\ i2c'.m.state = "Write")
          /\ (i2c.m.state = "Write" /\ i2c'.m.state = "Read") =>
                i2c'.calls = i2c.m.transaction.txlen + 1
      ]_vars

Wit_C36_WriteThenReadDone ==
    /\ i2c.last.op = "handler" /\ i2c.clean /\ i2c.m.state = "Idle"
    /\ i2c.m.transaction.txbuf # <<>> /\ i2c.m.transaction.txlen = MaxLen
    /\ i2c.m.transaction.rxlen = MaxLen
    /\ i2c.calls = 2 * MaxLen + 2
    /\ Statuses(i2c.sent) = {"ResponseReadOk"}

\* C37: in Write the index is at most txlen and txlen at most 31, in Read
\* the index is at most rxlen and rxlen at most 31, so the byte handler takes
\* from txbuf and the slot of rxbuf it stores into exist.
Thm_C37_IndexWithinBuffers ==
    /\ i2c.m.state = "Write" =>
          /\ i2c.m.index <= i2c.m.transaction.txlen
          /\ i2c.m.transaction.txlen <= I2C_MAX_LEN
          /\ i2c.m.index < i2c.m.transaction.txlen =>
                (i2c.m.index + 1) \in DOMAIN i2c.m.transaction.txbuf
    /\ i2c.m.state = "Read" =>
          /\ i2c.m.index <= i2c.m.transaction.rxlen
          /\ i2c.m.transaction.rxlen <= I2C_MAX_LEN
          /\ i2c.m.index > 0 => i2c.m.index \in DOMAIN i2c.m.transaction.rxbuf

Wit_C37_LastByteOfLongestWrite ==
    /\ i2c.m.state = "Write"
    /\ i2c.m.transaction.txlen = I2C_MAX_LEN
    /\ i2c.m.index = I2C_MAX_LEN

\* C38: in a RadioButtons or CheckBoxes form select_index is between 0 and
\* max_items, the position of the OK button.
Cex_C38_SelectIndexInRange ==
    form.kind \in {"radio", "check"} =>
       (0 <= form.select_index /\ form.select_index <= form.max_items)

\* the names a CheckBoxPayload holds, and whether it holds one twice
Held(p) == { i \in 1..MAX_ITEMS : p[i].some }
NoNameTwice(p) == \A i, j \in Held(p) : p[i].name = p[j].name => i = j
\* what the claim says of a CheckBoxPayload and the call made on it last
PayloadKeeps ==
    /\ NoNameTwice(form.p)
    /\ Cardinality(Held(form.p)) <= MAX_ITEMS
    /\ (form.op = "add" /\ ~form.ret) =>
          /\ ~CheckBoxPayload_contains(form.before, form.name)
          /\ Held(form.before) = 1..MAX_ITEMS
          /\ form.p = form.before
    /\ (form.op = "add" /\ form.ret) => CheckBoxPayload_contains(form.p, form.name)
    /\ form.op = "remove" => ~CheckBoxPayload_contains(form.p, form.name)

Cex_C40_BackspaceNeverPanics ==
    (form.kind = "text" /\ form.key = "backspace") =>
       /\ form.panicked = ""
       /\ form.action_payload =
             IF form.before = <<>> THEN <<>>
             ELSE SubSeq(form.before, 1, Len(form.before) - 1)

====
